---- MODULE Spec2Model ----
(***************************************************************************)
(* Hybrid retrieval (FAISS + SQLite FTS5 + reciprocal rank fusion),        *)
(* cross-encoder reranking and ingestion, modelled from hybrid_searcher.py,*)
(* hybrid_database.py, fastapi_hybrid.py, implement_reranking.py,          *)
(* faiss_with_reranking.py, main_reranking.py and build_index.py; and the  *)
(* voice assistant's /chat/ pipeline, modelled from main.py and tts.py.    *)
(*                                                                         *)
(* External collaborators (the embedding model with the FAISS index, the   *)
(* FTS5 matcher with its bm25 scorer, the cross-encoder) answer each call  *)
(* with a value drawn from a bounded set; the answer is recorded in the    *)
(* call so that properties can refer to it.                                *)
(***************************************************************************)
EXTENDS Integers, Sequences, FiniteSets, TLC

VARIABLES
    faiss_ntotal,    \* HybridSearcher.faiss_index: vectors 0 .. ntotal-1
    documents,       \* table documents: chunk_id -> content
    documents_fts,   \* table documents_fts: rowid -> content
    app_texts,       \* main_reranking app.texts / EnhancedRetrievalSystem.texts
    ingested,        \* history: per chunk_id, what add_documents committed for it
    call,            \* the request being served, with the collaborators' answers
    locals,          \* the handler's intermediate values
    response,        \* what the step just taken sent to its caller
    conversation_history,  \* main.py: the list conversation_history
    requests,        \* main.py: the /chat/ requests in flight, each at its await
    next_id,         \* main.py: the next conversation_id (uuid4: never reused)
    response_wav,    \* the file generated_responses/response.wav
    assistant_audio, \* the file response_<id>.wav renamed last (none changes later)
    completed        \* history: ids of the chats completed since the last clear

\* The state of the voice assistant (main.py, tts.py).
chat_vars == <<conversation_history, requests, next_id, response_wav,
              assistant_audio, completed>>

vars == <<faiss_ntotal, documents, documents_fts, app_texts, ingested,
         call, locals, response, chat_vars>>

(***************************************************************************)
(* Bounds                                                                  *)
(***************************************************************************)
MaxId == 3       \* chunk ids are 0 .. MaxId-1
MaxK == 2        \* requested result counts are 1 .. MaxK

ChunkIds == 0 .. (MaxId - 1)

Min(a, b) == IF a < b THEN a ELSE b

Range(s) == {s[i] : i \in 1..Len(s)}

\* [r['chunk_id'] for r in list]
IdsOf(list) == [i \in 1..Len(list) |-> list[i].chunk_id]

\* Sequences of n distinct elements of S.
RECURSIVE Injections(_, _)
Injections(S, n) ==
    IF n = 0 THEN {<<>>}
    ELSE UNION {{Append(s, x) : x \in S \ Range(s)} : s \in Injections(S, n - 1)}

\* Sequences of at most n distinct elements of S.
InjectionsUpTo(S, n) ==
    UNION {Injections(S, m) : m \in 0..Min(n, Cardinality(S))}

(***************************************************************************)
(* Floating point scores 1.0/(60+rank+1) and their sums, kept exact as     *)
(* fractions.  For the ranks the bounds allow, IEEE double comparison of   *)
(* these values agrees with the exact comparison.                          *)
(***************************************************************************)
RRF_K == 60

Recip(n) == [num |-> 1, den |-> n]
FAdd(a, b) == [num |-> a.num * b.den + b.num * a.den, den |-> a.den * b.den]
FLess(a, b) == a.num * b.den < b.num * a.den
FEq(a, b) == a.num * b.den = b.num * a.den
FZero == [num |-> 0, den |-> 1]

(***************************************************************************)
(* hybrid_database.py                                                      *)
(***************************************************************************)

\* The rows keyword_search can see: documents JOIN documents_fts ON chunk_id = rowid.
JoinedIds == (DOMAIN documents) \cap (DOMAIN documents_fts)

\* How the raw scores of one result list lie (floats, by their order only):
\* all different (p = 1) or tied in pairs (p = 2).
ScoreProfiles == {1, 2}

\* bm25(documents_fts) of the rows a MATCH returns: negative, the best match
\* lowest, in ORDER BY score order.
Bm25Scores(p, n) == [i \in 1..n |-> 0 - (((n - i) \div p) + 1)]

Abs(x) == IF x < 0 THEN 0 - x ELSE x

\* similarity = 1.0 / (1.0 + abs(score)) if score < 0 else 1.0
KeywordScore(score) ==
    IF score < 0 THEN [num |-> 1, den |-> 1 + Abs(score)] ELSE [num |-> 1, den |-> 1]

\* keyword_search's formatting loop over the rows the query returned
\* (rows: chunk ids in bm25 order, already cut by LIMIT; scores: their bm25).
keyword_search(rows, scores) ==
    [i \in 1..Len(rows) |-> [chunk_id |-> rows[i],
                             content |-> documents[rows[i]],
                             keyword_score |-> KeywordScore(scores[i])]]

(***************************************************************************)
(* hybrid_searcher.py                                                      *)
(***************************************************************************)

\* faiss_index.search(query_embedding, k): k slots, the nearest indexed
\* vectors first (order: the query's distance order), then -1 padding.
FaissSearch(order, k) ==
    [i \in 1..k |-> IF i <= Len(order) THEN order[i] ELSE -1]

\* The distances that come with the slots (floats >= 0), nearest first; a
\* padding slot carries the largest float, here k.
FaissDistances(p, n, k) == [i \in 1..k |-> IF i <= n THEN (i - 1) \div p ELSE k]

\* Faulty variant of VectorScore: the reciprocal left out.
VectorScoreNoReciprocal(distance) == [num |-> 1 + distance, den |-> 1]

\* similarity = 1.0 / (1.0 + distance)
VectorScore(distance) == [num |-> 1, den |-> 1 + distance]

\* for i, (distance, idx) in enumerate(zip(distances[0], indices[0])): ...
RECURSIVE VectorResultsFrom(_, _, _)
VectorResultsFrom(distances, indices, i) ==
    IF i > Len(indices) THEN <<>>
    ELSE (IF indices[i] # -1
          THEN <<[chunk_id |-> indices[i],
                  vector_score |-> VectorScore(distances[i]),
                  rank |-> i - 1]>>
          ELSE <<>>) \o VectorResultsFrom(distances, indices, i + 1)

vector_search(distances, indices) == VectorResultsFrom(distances, indices, 1)

\* The dict fused_scores, in insertion order.
DictHas(d, key) == \E i \in 1..Len(d) : d[i].chunk_id = key

DictGet(d, key, default) ==
    IF DictHas(d, key)
    THEN d[CHOOSE i \in 1..Len(d) : d[i].chunk_id = key].score
    ELSE default

DictSet(d, key, val) ==
    IF DictHas(d, key)
    THEN [i \in 1..Len(d) |-> IF d[i].chunk_id = key
                               THEN [d[i] EXCEPT !.score = val] ELSE d[i]]
    ELSE Append(d, [chunk_id |-> key, score |-> val])

\* Faulty variant of FuseVector: the raw vector_score as the contribution.
RECURSIVE FuseVectorByScore(_, _, _)
FuseVectorByScore(fused, vector_results, i) ==
    IF i > Len(vector_results) THEN fused
    ELSE FuseVectorByScore(DictSet(fused, vector_results[i].chunk_id,
                                   vector_results[i].vector_score),
                           vector_results, i + 1)

\* for rank, result in enumerate(vector_results): fused_scores[chunk_id] = ...
RECURSIVE FuseVector(_, _, _)
FuseVector(fused, vector_results, i) ==
    IF i > Len(vector_results) THEN fused
    ELSE FuseVector(DictSet(fused, vector_results[i].chunk_id,
                            Recip(RRF_K + (i - 1) + 1)),
                    vector_results, i + 1)

\* Faulty variant of KeywordContribution: = where the code has +=.
KeywordContributionBug(fused, chunk_id, rank) ==
    DictSet(fused, chunk_id, Recip(RRF_K + rank + 1))

\* One keyword contribution: += when the chunk is already there, = otherwise.
KeywordContribution(fused, chunk_id, rank) ==
    IF DictHas(fused, chunk_id)
    THEN DictSet(fused, chunk_id,
                 FAdd(DictGet(fused, chunk_id, FZero), Recip(RRF_K + rank + 1)))
    ELSE DictSet(fused, chunk_id, Recip(RRF_K + rank + 1))

\* for rank, result in enumerate(keyword_results): ...
RECURSIVE FuseKeyword(_, _, _)
FuseKeyword(fused, keyword_results, i) ==
    IF i > Len(keyword_results) THEN fused
    ELSE FuseKeyword(KeywordContribution(fused, keyword_results[i].chunk_id, i - 1),
                     keyword_results, i + 1)

\* Python's stable sort with reverse=True over n items, given less[i][j] =
\* (key of item i < key of item j): the item placed at each output position.
\* Item j comes before item i when its key is greater, or equal and j < i.
StableDescOrder(n, less) ==
    LET before(i) == {j \in 1..n : less[i][j] \/ (j < i /\ ~less[j][i])}
    IN [p \in 1..n |-> CHOOSE i \in 1..n : Cardinality(before(i)) + 1 = p]

\* sorted(fused_scores.items(), key=lambda x: x[1], reverse=True)
SortedDesc(items) ==
    LET n == Len(items)
        less == [i \in 1..n |-> [j \in 1..n |-> FLess(items[i].score, items[j].score)]]
        order == StableDescOrder(n, less)
    IN [p \in 1..n |-> items[order[p]]]

\* Faulty variant of Take: the slice [:k+1].
TakeOneMore(xs, k) == SubSeq(xs, 1, Min(k + 1, Len(xs)))

\* xs[:k]: the first k items; for k < 0, all but the last -k.
Take(xs, k) ==
    IF k >= 0 THEN SubSeq(xs, 1, Min(k, Len(xs)))
    ELSE IF Len(xs) + k > 0 THEN SubSeq(xs, 1, Len(xs) + k) ELSE <<>>

\* sorted(fused_scores.items(), ...)[:k]
TopChunkIds(fused, k) == Take(SortedDesc(fused), k)

\* Faulty variant of MatchedRows: the SELECT without its WHERE clause.
MatchedAllRows(chunk_ids) == DOMAIN documents

\* The ids SELECT ... WHERE chunk_id IN (chunk_ids) matches.
MatchedRows(chunk_ids) == Range(chunk_ids) \cap DOMAIN documents

\* The orders in which the SELECT (no ORDER BY) may return its rows.
RowOrders(chunk_ids) ==
    Injections(MatchedRows(chunk_ids), Cardinality(MatchedRows(chunk_ids)))

\* _get_document_details, given the order the rows came back in.
get_document_details(chunk_ids, rows) ==
    IF chunk_ids = <<>> THEN <<>>
    ELSE [i \in 1..Len(rows) |-> [chunk_id |-> rows[i], content |-> documents[rows[i]]]]

\* HybridSearcher.hybrid_search after the two searches returned.
hybrid_search(k, vector_results, keyword_results, rows) ==
    LET fused_scores == FuseKeyword(FuseVector(<<>>, vector_results, 1), keyword_results, 1)
        top_chunk_ids == TopChunkIds(fused_scores, k)
        details == get_document_details(
                       [i \in 1..Len(top_chunk_ids) |-> top_chunk_ids[i].chunk_id], rows)
    IN  [fused_scores |-> fused_scores,
         top_chunk_ids |-> top_chunk_ids,
         results |-> [i \in 1..Len(details) |->
                         [chunk_id |-> details[i].chunk_id,
                          content |-> details[i].content,
                          hybrid_score |-> DictGet(fused_scores, details[i].chunk_id, FZero)]]]

NoCall == [op |-> "none"]
NoLocals == [op |-> "none"]
NoResponse == [status |-> "none"]

\* generated_responses/response.wav does not exist.
NoFile == [exists |-> FALSE]

\* The voice assistant as main.py starts it: an empty history, no request
\* in flight, no TTS output yet.
NoChat ==
    /\ conversation_history = <<>>
    /\ requests = <<>>
    /\ next_id = 1
    /\ response_wav = NoFile
    /\ assistant_audio = <<>>
    /\ completed = <<>>

(***************************************************************************)
(* Actions of the hybrid search service                                    *)
(***************************************************************************)

\* What the two first-stage searches of a request for k results can answer:
\* a failure (an exception), or the FAISS slots / the FTS rows in bm25 order.
Raises == [ok |-> FALSE]

VectorAnswers(k, profiles) ==
    {Raises} \cup
    UNION {{[ok |-> TRUE,
             distances |-> FaissDistances(p, Len(order), k),
             indices |-> FaissSearch(order, k)] : p \in profiles} :
        order \in Injections(0..(faiss_ntotal - 1), Min(k, faiss_ntotal))}

\* The queries a caller sends: the empty string, or some text.
Queries == {"", "q"}

\* An empty MATCH pattern is an FTS5 syntax error (sqlite3.OperationalError).
KeywordAnswers(query, k, profiles) ==
    IF query = "" THEN {Raises}
    ELSE {Raises} \cup
         UNION {{[ok |-> TRUE, rows |-> rows, scores |-> Bm25Scores(p, Len(rows))] :
                    p \in profiles} :
             rows \in InjectionsUpTo(JoinedIds, k)}

\* The local variables of hybrid_search when it returns h.
HybridLocals(vector_results, keyword_results, h, rows) ==
    [op |-> "hybrid_search", reached |-> "return",
     vector_results |-> vector_results,
     keyword_results |-> keyword_results,
     fused_scores |-> h.fused_scores,
     top_chunk_ids |-> h.top_chunk_ids,
     rows |-> rows]

\* SearchResponse(query=q, results=..., total_results=len(results), method=...)
SearchResponse(method, results) ==
    [status |-> "ok", method |-> method,
     results |-> results, total_results |-> Len(results)]

\* GET /hybrid_search?q=..&k=..   (the raw scores of the two lists: both all
\* different, or both tied in pairs)
hybrid_search_endpoint ==
    /\ call = NoCall
    /\ \E query \in Queries, k \in 1..MaxK, p \in ScoreProfiles :
       \E faiss \in VectorAnswers(k * 2, {p}), fts \in KeywordAnswers(query, k * 2, {p}) :
          LET c == [op |-> "hybrid_search", query |-> query, k |-> k,
                    faiss |-> faiss, fts |-> fts]
          IN
          IF ~faiss.ok THEN
              \* vector_search raises; nothing catches it
              /\ call' = c
              /\ locals' = [op |-> "hybrid_search", reached |-> "vector_search"]
              /\ response' = [status |-> "error", error |-> "VectorSearchError"]
          ELSE IF ~fts.ok THEN
              \* keyword_search raises; nothing catches it
              /\ call' = c
              /\ locals' = [op |-> "hybrid_search", reached |-> "keyword_search",
                            vector_results |->
                                vector_search(faiss.distances, faiss.indices)]
              /\ response' = [status |-> "error", error |-> "KeywordSearchError"]
          ELSE
              LET vector_results == vector_search(faiss.distances, faiss.indices)
                  keyword_results == keyword_search(fts.rows, fts.scores)
                  fused == FuseKeyword(FuseVector(<<>>, vector_results, 1), keyword_results, 1)
                  top == TopChunkIds(fused, k)
              IN \E rows \in RowOrders([i \in 1..Len(top) |-> top[i].chunk_id]) :
                  LET h == hybrid_search(k, vector_results, keyword_results, rows)
                  IN /\ call' = c
                     /\ locals' = HybridLocals(vector_results, keyword_results, h, rows)
                     /\ response' = SearchResponse("hybrid_rrf", h.results)
    /\ UNCHANGED <<faiss_ntotal, documents, documents_fts, app_texts, ingested, chat_vars>>

\* for result, scored in zip(full_results, scored_results):
\*     result['hybrid_score'] = scored[...]
\* (scores: the score field of scored_results, in its order; full_results is
\* never the longer list, so every record gets a score).
ZipScores(full_results, scores) ==
    [i \in 1..Len(full_results) |->
        [chunk_id |-> full_results[i].chunk_id,
         content |-> full_results[i].content,
         hybrid_score |-> scores[i]]]

\* The local variables of the /vector_search and /keyword_search handlers.
LookupLocals(op, found, full_results, rows) ==
    [op |-> op, reached |-> "return",
     found |-> found,
     chunk_ids |-> IdsOf(found),
     full_results |-> full_results,
     rows |-> rows]

\* GET /vector_search?q=..&k=..
vector_search_endpoint ==
    /\ call = NoCall
    /\ \E k \in 1..MaxK :
       \E faiss \in VectorAnswers(k, ScoreProfiles) :
          LET c == [op |-> "vector_search", k |-> k, faiss |-> faiss]
          IN
          IF ~faiss.ok THEN
              /\ call' = c
              /\ locals' = [op |-> "vector_search", reached |-> "vector_search"]
              /\ response' = [status |-> "error", error |-> "VectorSearchError"]
          ELSE
              LET vector_results == vector_search(faiss.distances, faiss.indices)
              IN \E rows \in RowOrders(IdsOf(vector_results)) :
                  LET full_results == get_document_details(IdsOf(vector_results), rows)
                  IN /\ call' = c
                     /\ locals' = LookupLocals("vector_search", vector_results,
                                               full_results, rows)
                     /\ response' = SearchResponse("vector_only",
                                       ZipScores(full_results,
                                           [i \in 1..Len(vector_results) |->
                                               vector_results[i].vector_score]))
    /\ UNCHANGED <<faiss_ntotal, documents, documents_fts, app_texts, ingested, chat_vars>>

\* GET /keyword_search?q=..&k=..
keyword_search_endpoint ==
    /\ call = NoCall
    /\ \E query \in Queries, k \in 1..MaxK :
       \E fts \in KeywordAnswers(query, k, ScoreProfiles) :
          LET c == [op |-> "keyword_search", query |-> query, k |-> k, fts |-> fts]
          IN
          IF ~fts.ok THEN
              /\ call' = c
              /\ locals' = [op |-> "keyword_search", reached |-> "keyword_search"]
              /\ response' = [status |-> "error", error |-> "KeywordSearchError"]
          ELSE
              LET keyword_results == keyword_search(fts.rows, fts.scores)
              IN \E rows \in RowOrders(IdsOf(keyword_results)) :
                  LET full_results == get_document_details(IdsOf(keyword_results), rows)
                  IN /\ call' = c
                     /\ locals' = LookupLocals("keyword_search", keyword_results,
                                               full_results, rows)
                     /\ response' = SearchResponse("keyword_only",
                                       ZipScores(full_results,
                                           [i \in 1..Len(keyword_results) |->
                                               keyword_results[i].keyword_score]))
    /\ UNCHANGED <<faiss_ntotal, documents, documents_fts, app_texts, ingested, chat_vars>>

\* The response has been delivered; the server waits for the next request.
Return ==
    /\ call # NoCall
    /\ call' = NoCall
    /\ locals' = NoLocals
    /\ response' = NoResponse
    /\ UNCHANGED <<faiss_ntotal, documents, documents_fts, app_texts, ingested, chat_vars>>

\* The text ingestion stored for a chunk (the search service never writes to
\* the store, so one text per chunk id is enough for it).
ContentOf(chunk_id) == <<"content", chunk_id>>

\* The search service starts on an index file and a database that ingestion
\* left behind: any number of indexed vectors, any set of stored chunks, the
\* FTS table holding the same rows as the main table.
InitHybrid ==
    /\ faiss_ntotal \in 0..MaxId
    /\ documents \in {[c \in S |-> ContentOf(c)] : S \in SUBSET ChunkIds}
    /\ documents_fts = documents
    /\ ingested = [c \in DOMAIN documents |->
                      [last |-> documents[c], all |-> {documents[c]}]]
    /\ app_texts = <<>>
    /\ call = NoCall
    /\ locals = NoLocals
    /\ response = NoResponse
    /\ NoChat

NextHybrid ==
    \/ hybrid_search_endpoint
    \/ vector_search_endpoint
    \/ keyword_search_endpoint
    \/ Return

SpecHybrid == InitHybrid /\ [][NextHybrid]_vars

(***************************************************************************)
(* Comparison of the three methods: HybridSearcher.compare_searches and    *)
(* GET /compare_methods                                                    *)
(***************************************************************************)

\* r['content'][:200] + '...'
Preview(content) == <<content, "...">>

Previews(records) == [i \in 1..Len(records) |-> Preview(records[i].content)]

\* One request asks the same index and the same FTS table twice, for k and
\* for k * 2 neighbours of the same query: the answer for k is the head of
\* the answer for k * 2.
FirstSlots(faiss, k) ==
    [ok |-> TRUE, distances |-> Take(faiss.distances, k),
     indices |-> Take(faiss.indices, k)]

FirstRows(fts, k) ==
    [ok |-> TRUE, rows |-> Take(fts.rows, k), scores |-> Take(fts.scores, k)]

\* The hybrid_search call inside a comparison, after its two searches.
CompareHybrid(k, faiss, fts, rows) ==
    hybrid_search(k, vector_search(faiss.distances, faiss.indices),
                  keyword_search(fts.rows, fts.scores), rows).results

\* The ids hybrid_search looks up for these two answers.
CompareTopIds(k, faiss, fts) ==
    IdsOf(TopChunkIds(FuseKeyword(FuseVector(<<>>,
                          vector_search(faiss.distances, faiss.indices), 1),
                      keyword_search(fts.rows, fts.scores), 1), k))

\* The local variables of a comparison when it reaches its return statement.
CompareLocals(op, reached, vector_results, keyword_results, hybrid_results) ==
    [op |-> op, reached |-> reached,
     vector_results |-> vector_results,
     keyword_results |-> keyword_results,
     hybrid_results |-> hybrid_results]

\* ComparisonResponse(query=q, vector_only=..., keyword_only=..., hybrid=...)
ComparisonResponse(vector_only, keyword_only, hybrid) ==
    [status |-> "ok", vector_only |-> vector_only,
     keyword_only |-> keyword_only, hybrid |-> hybrid]

\* HybridSearcher.compare_searches(query, k).  The lists of the return
\* statement are built from the search results themselves; a vector result
\* has the keys chunk_id, vector_score and rank, so r['content'] raises
\* KeyError on the first one.
compare_searches ==
    /\ call = NoCall
    /\ \E query \in Queries, k \in 1..MaxK, p \in ScoreProfiles :
       \E faiss \in VectorAnswers(k * 2, {p}), fts \in KeywordAnswers(query, k * 2, {p}) :
          LET c == [op |-> "compare_searches", query |-> query, k |-> k,
                    faiss |-> faiss, fts |-> fts]
          IN
          IF ~faiss.ok THEN
              /\ call' = c
              /\ locals' = [op |-> "compare_searches", reached |-> "vector_search"]
              /\ response' = [status |-> "error", error |-> "VectorSearchError"]
          ELSE IF ~fts.ok THEN
              /\ call' = c
              /\ locals' = [op |-> "compare_searches", reached |-> "keyword_search"]
              /\ response' = [status |-> "error", error |-> "KeywordSearchError"]
          ELSE
              \E rows \in RowOrders(CompareTopIds(k, faiss, fts)) :
                  /\ call' = c
                  /\ locals' = CompareLocals("compare_searches",
                         IF vector_search(FirstSlots(faiss, k).distances,
                                          FirstSlots(faiss, k).indices) = <<>>
                         THEN "return" ELSE "vector_only",
                         vector_search(FirstSlots(faiss, k).distances,
                                       FirstSlots(faiss, k).indices),
                         keyword_search(FirstRows(fts, k).rows, FirstRows(fts, k).scores),
                         CompareHybrid(k, faiss, fts, rows))
                  /\ response' =
                         IF vector_search(FirstSlots(faiss, k).distances,
                                          FirstSlots(faiss, k).indices) = <<>>
                         THEN ComparisonResponse(<<>>,
                                  Previews(keyword_search(FirstRows(fts, k).rows,
                                                          FirstRows(fts, k).scores)),
                                  Previews(CompareHybrid(k, faiss, fts, rows)))
                         ELSE [status |-> "error", error |-> "KeyError"]
    /\ UNCHANGED <<faiss_ntotal, documents, documents_fts, app_texts, ingested, chat_vars>>

\* GET /compare_methods?q=..&k=..
compare_methods ==
    /\ call = NoCall
    /\ \E query \in Queries, k \in 1..MaxK, p \in ScoreProfiles :
       \E faiss \in VectorAnswers(k * 2, {p}), fts \in KeywordAnswers(query, k * 2, {p}) :
          LET c == [op |-> "compare_methods", query |-> query, k |-> k,
                    faiss |-> faiss, fts |-> fts]
          IN
          IF ~faiss.ok THEN
              /\ call' = c
              /\ locals' = [op |-> "compare_methods", reached |-> "vector_search"]
              /\ response' = [status |-> "error", error |-> "VectorSearchError"]
          ELSE IF ~fts.ok THEN
              /\ call' = c
              /\ locals' = [op |-> "compare_methods", reached |-> "keyword_search"]
              /\ response' = [status |-> "error", error |-> "KeywordSearchError"]
          ELSE
              \E vector_rows \in RowOrders(IdsOf(vector_search(
                                    FirstSlots(faiss, k).distances,
                                    FirstSlots(faiss, k).indices))),
                 keyword_rows \in RowOrders(Take(fts.rows, k)),
                 rows \in RowOrders(CompareTopIds(k, faiss, fts)) :
                  /\ call' = c
                  /\ locals' = CompareLocals("compare_methods", "return",
                         vector_search(FirstSlots(faiss, k).distances,
                                       FirstSlots(faiss, k).indices),
                         keyword_search(FirstRows(fts, k).rows, FirstRows(fts, k).scores),
                         CompareHybrid(k, faiss, fts, rows))
                  /\ response' = ComparisonResponse(
                         Previews(get_document_details(
                             IdsOf(vector_search(FirstSlots(faiss, k).distances,
                                                 FirstSlots(faiss, k).indices)),
                             vector_rows)),
                         Previews(get_document_details(Take(fts.rows, k), keyword_rows)),
                         Previews(CompareHybrid(k, faiss, fts, rows)))
    /\ UNCHANGED <<faiss_ntotal, documents, documents_fts, app_texts, ingested, chat_vars>>

NextCompare == compare_searches \/ compare_methods \/ Return

SpecCompare == InitHybrid /\ [][NextCompare]_vars

(***************************************************************************)
(* Reranking: implement_reranking.py, main_reranking.py,                   *)
(* faiss_with_reranking.py                                                 *)
(***************************************************************************)
FIRST_STAGE_K == 20      \* neighbours fetched when reranking
RERANK_TOP == 10         \* candidates handed to the cross-encoder
DEFAULT_FINAL_K == 3     \* EnhancedRetrievalSystem.search(final_k=3)

\* The text of chunk i.
TextOf(i) == <<"text", i>>

\* Relevance scores the cross-encoder can give (floats, by their order only).
Scores == {-1, 0, 2}

\* The cross-encoder is a function of the (query, text) pair: for one query,
\* a score per text; or the call raises.
CrossAnswers(texts) ==
    {Raises} \cup {[ok |-> TRUE, score |-> f] : f \in [texts -> Scores]}

\* model.predict(pairs): one score per pair, in input order.
predict(cross, pairs) == [i \in 1..Len(pairs) |-> cross.score[pairs[i]]]

\* The order a descending stable sort on an integer key gives.
DescOrderByKey(keys) ==
    StableDescOrder(Len(keys),
        [i \in 1..Len(keys) |-> [j \in 1..Len(keys) |-> keys[i] < keys[j]]])

\* The order an ascending stable sort gives (reverse=True left out).
AscOrderByKey(keys) ==
    StableDescOrder(Len(keys),
        [i \in 1..Len(keys) |-> [j \in 1..Len(keys) |-> keys[i] > keys[j]]])

\* Faulty variant of SortByRerankScore: ascending.
SortByRerankScoreAscending(ranked_results) ==
    LET order == AscOrderByKey([i \in 1..Len(ranked_results) |->
                                   ranked_results[i].rerank_score])
    IN [p \in 1..Len(ranked_results) |-> ranked_results[order[p]]]

\* ranked_results.sort(key=lambda x: x['rerank_score'], reverse=True)
SortByRerankScore(ranked_results) ==
    LET order == DescOrderByKey([i \in 1..Len(ranked_results) |->
                                    ranked_results[i].rerank_score])
    IN [p \in 1..Len(ranked_results) |-> ranked_results[order[p]]]

\* Faulty variant of rerank: original_rank left zero-based.
rerankZeroBasedRank(candidates, scores, top_k) ==
    LET ranked_results == [i \in 1..Len(candidates) |->
                              [text |-> candidates[i],
                               rerank_score |-> scores[i],
                               original_rank |-> i - 1]]
    IN Take(SortByRerankScore(ranked_results), top_k)

\* Reranker.rerank once the model has answered.
rerank(candidates, scores, top_k) ==
    LET ranked_results == [i \in 1..Len(candidates) |->
                              [text |-> candidates[i],
                               rerank_score |-> scores[i],
                               original_rank |-> (i - 1) + 1]]
    IN Take(SortByRerankScore(ranked_results), top_k)

\* Python list indexing: a negative index counts from the end.
PyIndex(list, idx) ==
    IF idx >= 0 THEN list[idx + 1] ELSE list[Len(list) + idx + 1]

\* The distance FAISS reports in slot i, by its order only: slots come
\* nearest first, the -1 padding carries the largest distance.
DistanceAt(i) == i

\* main_reranking.search: for dist, idx in zip(...): if idx < len(app.texts)
RECURSIVE SearchCandidatesFrom(_, _)
SearchCandidatesFrom(indices, i) ==
    IF i > Len(indices) THEN <<>>
    ELSE (IF indices[i] < Len(app_texts)
          THEN <<[text |-> PyIndex(app_texts, indices[i]),
                  faiss_distance |-> DistanceAt(i),
                  index |-> indices[i]]>>
          ELSE <<>>) \o SearchCandidatesFrom(indices, i + 1)

\* candidates_to_rerank.sort(key=lambda x: x['cross_score'], reverse=True)
SortByCrossScore(cands) ==
    LET order == DescOrderByKey([i \in 1..Len(cands) |-> cands[i].cross_score])
    IN [p \in 1..Len(cands) |-> cands[order[p]]]

\* Faulty variant of FaissOnlyResults: tagged as reranked.
FaissOnlyResultsMistagged(candidates, k) ==
    [i \in 1..Len(Take(candidates, k)) |->
        [id |-> candidates[i].index,
         score |-> candidates[i].faiss_distance,
         text |-> candidates[i].text,
         method |-> "faiss_reranked"]]

\* The faiss_only branch of main_reranking.search.
FaissOnlyResults(candidates, k) ==
    [i \in 1..Len(Take(candidates, k)) |->
        [id |-> candidates[i].index,
         score |-> candidates[i].faiss_distance,
         text |-> candidates[i].text,
         method |-> "faiss_only"]]

\* The reranking branch of main_reranking.search once the model has answered.
RerankedResults(candidates_to_rerank, cross_scores, k) ==
    LET scored == [i \in 1..Len(candidates_to_rerank) |->
                      [text |-> candidates_to_rerank[i].text,
                       faiss_distance |-> candidates_to_rerank[i].faiss_distance,
                       index |-> candidates_to_rerank[i].index,
                       cross_score |-> cross_scores[i]]]
        sorted == SortByCrossScore(scored)
    IN [i \in 1..Len(Take(sorted, k)) |->
           [id |-> sorted[i].index,
            score |-> sorted[i].faiss_distance,
            cross_score |-> sorted[i].cross_score,
            text |-> sorted[i].text,
            method |-> "faiss_reranked"]]

\* EnhancedRetrievalSystem.search: the candidate loop.  faiss_rank is read
\* from len(candidates) after the append.
RECURSIVE EnhancedCandidatesFrom(_, _, _)
EnhancedCandidatesFrom(indices, i, found) ==
    IF i > Len(indices) THEN <<>>
    ELSE IF indices[i] < Len(app_texts)
         THEN <<[text |-> PyIndex(app_texts, indices[i]),
                 faiss_distance |-> DistanceAt(i),
                 faiss_rank |-> (found + 1) + 1]>>
              \o EnhancedCandidatesFrom(indices, i + 1, found + 1)
         ELSE EnhancedCandidatesFrom(indices, i + 1, found)

\* reranked_results.sort(key=lambda x: x['cross_encoder_score'], reverse=True)
SortByCrossEncoderScore(reranked_results) ==
    LET order == DescOrderByKey([i \in 1..Len(reranked_results) |->
                                    reranked_results[i].cross_encoder_score])
    IN [p \in 1..Len(reranked_results) |-> reranked_results[order[p]]]

\* Stage 2 of EnhancedRetrievalSystem.search once the model has answered.
EnhancedFinalResults(candidate_info, rerank_top_k, cross_scores, final_k) ==
    LET reranked_results ==
            [i \in 1..Len(Take(candidate_info, rerank_top_k)) |->
                [text |-> candidate_info[i].text,
                 cross_encoder_score |-> cross_scores[i],
                 faiss_distance |-> candidate_info[i].faiss_distance,
                 faiss_rank |-> candidate_info[i].faiss_rank,
                 final_rank |-> (i - 1) + 1]]
    IN Take(SortByCrossEncoderScore(reranked_results), final_k)

\* scored_candidates.sort(key=lambda x: x["score"], reverse=True)
SortByScore(scored_candidates) ==
    LET order == DescOrderByKey([i \in 1..Len(scored_candidates) |->
                                    scored_candidates[i].score])
    IN [p \in 1..Len(scored_candidates) |-> scored_candidates[order[p]]]

\* POST /rerank once the model has answered.
RerankSearchResults(candidates, cross_scores) ==
    LET scored_candidates == [i \in 1..Len(candidates) |->
                                 [text |-> candidates[i], score |-> cross_scores[i]]]
        sorted == SortByScore(scored_candidates)
    IN [i \in 1..Len(sorted) |->
           [text |-> sorted[i].text, score |-> sorted[i].score, rank |-> i]]

\* What index.search(query_embedding, k) can answer, the encoder included.
\* For k < 0 no array of k slots can be made and the call raises; for k = 0
\* the FAISS wrapper, depending on its version, asserts k > 0 or returns no
\* slots.
IndexAnswers(k) ==
    IF k < 0 THEN {Raises}
    ELSE {Raises} \cup
         {[ok |-> TRUE, indices |-> FaissSearch(order, k)] :
             order \in Injections(0..(faiss_ntotal - 1), Min(k, faiss_ntotal))}

\* The k a caller of /search sends (the parameter is a plain int): small
\* values around the number of chunks, one more than the rerank pool, and
\* the size of the first stage.
SearchKs == ((0 - 1)..MaxK) \cup {RERANK_TOP + 1, FIRST_STAGE_K}

TextsOf(records) == [i \in 1..Len(records) |-> records[i].text]

\* Candidate lists a caller can pass: up to MaxId texts of the corpus,
\* repeats allowed.
CandidateLists == UNION {[1..n -> Range(app_texts)] : n \in 0..MaxId}

(***************************************************************************)
(* Actions of the reranking services                                       *)
(***************************************************************************)

\* Reranker.rerank(query, candidates, top_k)
rerank_call ==
    /\ call = NoCall
    /\ \E candidates \in CandidateLists, top_k \in 0..MaxK :
       \E cross \in CrossAnswers(Range(candidates)) :
          /\ call' = [op |-> "rerank", candidates |-> candidates,
                      top_k |-> top_k, cross |-> cross]
          /\ IF candidates = <<>> THEN
                 /\ locals' = [op |-> "rerank", reached |-> "empty"]
                 /\ response' = [status |-> "ok", results |-> <<>>]
             ELSE IF ~cross.ok THEN
                 \* model.predict raises; rerank does not catch it
                 /\ locals' = [op |-> "rerank", reached |-> "predict"]
                 /\ response' = [status |-> "error", error |-> "CrossEncoderError"]
             ELSE
                 /\ locals' = [op |-> "rerank", reached |-> "return",
                               scores |-> predict(cross, candidates)]
                 /\ response' = [status |-> "ok",
                                 results |-> rerank(candidates,
                                                    predict(cross, candidates), top_k)]
    /\ UNCHANGED <<faiss_ntotal, documents, documents_fts, app_texts, ingested, chat_vars>>

\* POST /search?query=..&k=..&use_reranking=..   (main_reranking.py)
search_endpoint ==
    /\ call = NoCall
    /\ \E k \in SearchKs, use_reranking \in BOOLEAN :
       \E faiss \in IndexAnswers(IF use_reranking THEN FIRST_STAGE_K ELSE k),
          cross \in CrossAnswers(Range(app_texts)) :
          /\ call' = [op |-> "search", k |-> k, use_reranking |-> use_reranking,
                      faiss |-> faiss, cross |-> cross]
          /\ IF ~faiss.ok THEN
                 \* except Exception as e: return {"error": str(e)}
                 /\ locals' = [op |-> "search", reached |-> "index.search"]
                 /\ response' = [status |-> "error", error |-> "IndexSearchError"]
             ELSE
                 LET candidates == SearchCandidatesFrom(faiss.indices, 1)
                     candidates_to_rerank == Take(candidates, RERANK_TOP)
                 IN
                 IF ~use_reranking \/ Len(candidates) <= k THEN
                     /\ locals' = [op |-> "search", reached |-> "return",
                                   candidates |-> candidates]
                     /\ response' = [status |-> "ok",
                                     results |-> FaissOnlyResults(candidates, k),
                                     metrics |-> [method |-> "faiss_only",
                                                  candidates_considered |->
                                                      Len(Take(candidates, k))]]
                 ELSE IF ~cross.ok THEN
                     \* cross_encoder.predict raises:
                     \* except Exception as e: return {"error": str(e)}
                     /\ locals' = [op |-> "search", reached |-> "predict",
                                   candidates |-> candidates]
                     /\ response' = [status |-> "error", error |-> "CrossEncoderError"]
                 ELSE
                     LET cross_scores == predict(cross, TextsOf(candidates_to_rerank))
                     IN /\ locals' = [op |-> "search", reached |-> "return",
                                      candidates |-> candidates,
                                      candidates_to_rerank |-> candidates_to_rerank,
                                      cross_scores |-> cross_scores]
                        /\ response' = [status |-> "ok",
                                        results |-> RerankedResults(candidates_to_rerank,
                                                                    cross_scores, k),
                                        metrics |-> [method |-> "faiss_reranked",
                                                     candidates_retrieved |-> Len(candidates),
                                                     candidates_reranked |->
                                                         Len(candidates_to_rerank)]]
    /\ UNCHANGED <<faiss_ntotal, documents, documents_fts, app_texts, ingested, chat_vars>>

\* POST /rerank   (main_reranking.py)
rerank_search ==
    /\ call = NoCall
    /\ \E query \in {"", "q"}, candidates \in CandidateLists :
       \E cross \in CrossAnswers(Range(candidates)) :
          /\ call' = [op |-> "rerank_search", query |-> query,
                      candidates |-> candidates, cross |-> cross]
          /\ IF query = "" \/ candidates = <<>> THEN
                 /\ locals' = [op |-> "rerank_search", reached |-> "missing"]
                 /\ response' = [status |-> "ok", reranked_results |-> <<>>,
                                 metrics |-> [error |-> "Missing query or candidates"]]
             ELSE IF ~cross.ok THEN
                 \* except Exception: an empty RerankResponse carrying the error
                 /\ locals' = [op |-> "rerank_search", reached |-> "predict"]
                 /\ response' = [status |-> "ok", reranked_results |-> <<>>,
                                 metrics |-> [error |-> "CrossEncoderError"]]
             ELSE
                 /\ locals' = [op |-> "rerank_search", reached |-> "return",
                               cross_scores |-> predict(cross, candidates)]
                 /\ response' = [status |-> "ok",
                                 reranked_results |->
                                     RerankSearchResults(candidates,
                                                         predict(cross, candidates)),
                                 metrics |-> [method |-> "standalone_reranking",
                                              candidates_reranked |-> Len(candidates)]]
    /\ UNCHANGED <<faiss_ntotal, documents, documents_fts, app_texts, ingested, chat_vars>>

\* EnhancedRetrievalSystem.search(query, first_stage_k=20, final_k, rerank_top_k=10)
enhanced_search ==
    /\ call = NoCall
    /\ \E final_k \in (0..MaxK) \cup {DEFAULT_FINAL_K} :
       \E faiss \in IndexAnswers(FIRST_STAGE_K),
          cross \in CrossAnswers(Range(app_texts)) :
          /\ call' = [op |-> "enhanced_search", final_k |-> final_k,
                      faiss |-> faiss, cross |-> cross]
          /\ IF ~faiss.ok THEN
                 /\ locals' = [op |-> "enhanced_search", reached |-> "index.search"]
                 /\ response' = [status |-> "error", error |-> "IndexSearchError"]
             ELSE
                 LET candidate_info == EnhancedCandidatesFrom(faiss.indices, 1, 0)
                     candidates_to_rerank == Take(TextsOf(candidate_info), RERANK_TOP)
                 IN
                 IF candidates_to_rerank = <<>> THEN
                     /\ locals' = [op |-> "enhanced_search", reached |-> "return",
                                   candidate_info |-> candidate_info,
                                   candidates_to_rerank |-> candidates_to_rerank]
                     /\ response' = [status |-> "ok", results |-> <<>>]
                 ELSE IF ~cross.ok THEN
                     \* cross_encoder.predict raises; search does not catch it
                     /\ locals' = [op |-> "enhanced_search", reached |-> "predict",
                                   candidate_info |-> candidate_info,
                                   candidates_to_rerank |-> candidates_to_rerank]
                     /\ response' = [status |-> "error", error |-> "CrossEncoderError"]
                 ELSE
                     LET cross_scores == predict(cross, candidates_to_rerank)
                     IN /\ locals' = [op |-> "enhanced_search", reached |-> "return",
                                      candidate_info |-> candidate_info,
                                      candidates_to_rerank |-> candidates_to_rerank,
                                      cross_scores |-> cross_scores]
                        /\ response' = [status |-> "ok",
                                        results |-> EnhancedFinalResults(
                                                        candidate_info, RERANK_TOP,
                                                        cross_scores, final_k)]
    /\ UNCHANGED <<faiss_ntotal, documents, documents_fts, app_texts, ingested, chat_vars>>

\* The reranking services start on an index and its id2text list as
\* build_index.py writes them: one text per vector, at least one vector.
InitRerank ==
    /\ faiss_ntotal \in 1..MaxId
    /\ app_texts = [i \in 1..faiss_ntotal |-> TextOf(i - 1)]
    /\ documents = <<>>
    /\ documents_fts = <<>>
    /\ ingested = <<>>
    /\ call = NoCall
    /\ locals = NoLocals
    /\ response = NoResponse
    /\ NoChat

NextRerank == rerank_call \/ search_endpoint \/ rerank_search \/ enhanced_search \/ Return

SpecRerank == InitRerank /\ [][NextRerank]_vars

(***************************************************************************)
(* Ingestion: hybrid_database.add_documents and build_index.py             *)
(***************************************************************************)
MaxBatch == 2    \* add_documents is called with at most MaxBatch documents

\* A second text for a chunk, for a document that is added again.
RevisedOf(chunk_id) == <<"revised", chunk_id>>

\* The documents a caller can pass: a chunk id with one of its two texts, or
\* a dict without the key 'content' (its chunk_id plays no part: the INSERT
\* that would use it is never executed).
Docs ==
    UNION {{[chunk_id |-> c, content |-> x] : x \in {ContentOf(c), RevisedOf(c)}} :
              c \in ChunkIds}
    \cup {[chunk_id |-> 0]}

Batches == UNION {[1..n -> Docs] : n \in 0..MaxBatch}

\* Faulty variant of InsertOrReplace: INSERT OR IGNORE keeps the old row.
InsertOrIgnore(table, rowid, content) ==
    IF rowid \in DOMAIN table THEN table
    ELSE [r \in (DOMAIN table) \cup {rowid} |->
             IF r = rowid THEN content ELSE table[r]]

\* INSERT OR REPLACE INTO table: the row with this key is replaced, or added.
InsertOrReplace(table, rowid, content) ==
    [r \in (DOMAIN table) \cup {rowid} |-> IF r = rowid THEN content ELSE table[r]]

\* add_documents' loop from document i on, inside one transaction.  A dict
\* without 'content' raises KeyError: conn.commit() is not reached and the
\* connection is dropped, so nothing of the batch is stored.
RECURSIVE AddDocumentsFrom(_, _, _, _)
AddDocumentsFrom(docs_table, fts_table, batch, i) ==
    IF i > Len(batch) THEN
        [ok |-> TRUE, documents |-> docs_table, documents_fts |-> fts_table]
    ELSE IF "content" \notin DOMAIN batch[i] THEN Raises
    ELSE AddDocumentsFrom(
             InsertOrReplace(docs_table, batch[i].chunk_id, batch[i].content),
             InsertOrReplace(fts_table, batch[i].chunk_id, batch[i].content),
             batch, i + 1)

\* The history after a committed batch: per chunk id the content of its last
\* document in the batch, and every content committed for it so far.
Ingest(history, batch) ==
    LET ids == {batch[i].chunk_id : i \in 1..Len(batch)}
        lastAt(c) == CHOOSE i \in 1..Len(batch) :
                         /\ batch[i].chunk_id = c
                         /\ \A j \in 1..Len(batch) : batch[j].chunk_id = c => j <= i
        seen(c) == {batch[i].content : i \in {j \in 1..Len(batch) : batch[j].chunk_id = c}}
    IN [c \in (DOMAIN history) \cup ids |->
           IF c \in ids
           THEN [last |-> batch[lastAt(c)].content,
                 all |-> seen(c) \cup (IF c \in DOMAIN history
                                       THEN history[c].all ELSE {})]
           ELSE history[c]]

\* HybridDatabase.add_documents(documents)
add_documents ==
    /\ call = NoCall
    /\ \E batch \in Batches :
          LET done == AddDocumentsFrom(documents, documents_fts, batch, 1)
          IN IF done.ok THEN
                 /\ documents' = done.documents
                 /\ documents_fts' = done.documents_fts
                 /\ ingested' = Ingest(ingested, batch)
                 /\ call' = [op |-> "add_documents", count |-> Len(batch)]
                 /\ locals' = [op |-> "add_documents", reached |-> "commit"]
                 /\ response' = [status |-> "ok"]
             ELSE
                 /\ UNCHANGED <<documents, documents_fts, ingested>>
                 /\ call' = [op |-> "add_documents", count |-> Len(batch)]
                 /\ locals' = [op |-> "add_documents", reached |-> "raise"]
                 /\ response' = [status |-> "error", error |-> "KeyError"]
    /\ UNCHANGED <<faiss_ntotal, app_texts, chat_vars>>

\* build_index.py: embeds the n >= 1 chunks of data/chunks.jsonl, writes the
\* index and the id2text list; it does not touch the database.
build_index ==
    /\ call = NoCall
    /\ \E n \in 1..MaxId :
          /\ faiss_ntotal' = n
          /\ app_texts' = [i \in 1..n |-> TextOf(i - 1)]
    /\ UNCHANGED <<documents, documents_fts, ingested, call, locals, response, chat_vars>>

\* Before any ingestion: no index, the two tables as _init_database creates them.
InitStore ==
    /\ faiss_ntotal = 0
    /\ app_texts = <<>>
    /\ documents = <<>>
    /\ documents_fts = <<>>
    /\ ingested = <<>>
    /\ call = NoCall
    /\ locals = NoLocals
    /\ response = NoResponse
    /\ NoChat

NextStore == add_documents \/ build_index \/ Return

SpecStore == InitStore /\ [][NextStore]_vars

(***************************************************************************)
(* Voice assistant: main.py (/chat/, /clear) and tts.py                    *)
(***************************************************************************)
MAX_CONVERSATIONS == 5   \* entries kept in conversation_history
MaxChats == 6            \* /chat/ requests received in one run
MaxInFlight == 2         \* /chat/ requests processed at the same time

\* What the ASR hears in the upload of request id, what the LLM answers to
\* it, and the audio the TTS engine makes of a text.
UserText(id) == <<"user_text", id>>
BotText(id) == <<"assistant_text", id>>
Speech(text) == <<"speech", text>>

\* conversation_entry (the timestamp is left out).
ConversationEntry(id) ==
    [id |-> id,
     user_audio |-> <<"user_audio", id, ".wav">>,
     user_text |-> UserText(id),
     assistant_audio |-> <<"response", id, ".wav">>,
     assistant_text |-> BotText(id)]

\* Faulty variant of AppendConversation: pop() where the code has pop(0).
AppendConversationPopLast(history, entry) ==
    IF Len(history) + 1 > MAX_CONVERSATIONS THEN history
    ELSE Append(history, entry)

\* conversation_history.append(conversation_entry)
\* if len(conversation_history) > MAX_CONVERSATIONS: conversation_history.pop(0)
AppendConversation(history, entry) ==
    IF Len(Append(history, entry)) > MAX_CONVERSATIONS
    THEN Tail(Append(history, entry))
    ELSE Append(history, entry)

\* What the TTS engine leaves in response.wav.
SpeechFile(text) == [exists |-> TRUE, over_1000_bytes |-> TRUE, audio |-> Speech(text)]

ShortFile == [exists |-> TRUE, over_1000_bytes |-> FALSE, audio |-> <<>>]

\* The responses of /chat/.
ChatError(error) == [status |-> "ok", success |-> FALSE, error |-> error]

ChatSuccess(id) ==
    [status |-> "ok", success |-> TRUE, conversation_id |-> id,
     user_text |-> UserText(id), assistant_text |-> BotText(id),
     assistant_audio_url |-> <<"response", id, ".wav">>]

\* The request leaves the server.
Leave(id) == [i \in (DOMAIN requests) \ {id} |-> requests[i]]

\* The request moves on to its next await.
Goto(id, pc, tts_success) ==
    [requests EXCEPT ![id] = [pc |-> pc, tts_success |-> tts_success]]

\* POST /chat/ up to its first run_in_executor: the upload is read, a WebM
\* upload is converted (which can fail), the user audio is saved and the
\* transcription is handed to the executor.
chat_endpoint ==
    /\ next_id <= MaxChats
    /\ Cardinality(DOMAIN requests) < MaxInFlight
    /\ next_id' = next_id + 1
    /\ \E converted \in BOOLEAN :
          IF converted
          THEN /\ requests' = (next_id :> [pc |-> "generate_response",
                                          tts_success |-> FALSE]) @@ requests
               /\ response' = NoResponse
          ELSE /\ response' = ChatError("Failed to convert WebM audio")
               /\ UNCHANGED requests
    /\ UNCHANGED <<conversation_history, response_wav, assistant_audio, completed>>
    /\ UNCHANGED <<faiss_ntotal, documents, documents_fts, app_texts, ingested,
                   call, locals>>

\* transcribe_audio and then generate_response(user_text,
\* conversation_history) return in the executor, or one of them raises
\* (except Exception: the handler answers with the error).  Neither writes
\* anything the server shares (generate_response only reads the history), so
\* the two awaits are one step.
generate_response ==
    /\ \E id \in DOMAIN requests :
          /\ requests[id].pc = "generate_response"
          /\ \E raised \in BOOLEAN :
                IF raised
                THEN /\ requests' = Leave(id)
                     /\ response' = ChatError("Exception")
                ELSE /\ requests' = Goto(id, "synthesize_speech", FALSE)
                     /\ response' = NoResponse
    /\ UNCHANGED <<conversation_history, next_id, response_wav, assistant_audio,
                   completed>>
    /\ UNCHANGED <<faiss_ntotal, documents, documents_fts, app_texts, ingested,
                   call, locals>>

\* synthesize_speech in an executor thread, first half (tts.py): the engine
\* writes generated_responses/response.wav, a file of speech, or a file of
\* at most 1000 bytes (too short to hold speech); or the engine raises and
\* the function returns False.  A write replaces the file as a whole.
synthesize_speech ==
    /\ \E id \in DOMAIN requests :
          /\ requests[id].pc = "synthesize_speech"
          /\ \E outcome \in {"speech", "short", "raised"} :
                IF outcome = "raised"
                THEN /\ requests' = Goto(id, "resume", FALSE)
                     /\ UNCHANGED response_wav
                ELSE /\ requests' = Goto(id, "output_check", FALSE)
                     /\ response_wav' = IF outcome = "speech"
                                         THEN SpeechFile(BotText(id))
                                         ELSE ShortFile
    /\ response' = NoResponse
    /\ UNCHANGED <<conversation_history, next_id, assistant_audio, completed>>
    /\ UNCHANGED <<faiss_ntotal, documents, documents_fts, app_texts, ingested,
                   call, locals>>

\* synthesize_speech, second half: if os.path.exists(output_path): ...
\* return True, else return False.
synthesize_speech_check ==
    /\ \E id \in DOMAIN requests :
          /\ requests[id].pc = "output_check"
          /\ requests' = Goto(id, "resume", response_wav.exists)
    /\ response' = NoResponse
    /\ UNCHANGED <<conversation_history, next_id, response_wav, assistant_audio,
                   completed>>
    /\ UNCHANGED <<faiss_ntotal, documents, documents_fts, app_texts, ingested,
                   call, locals>>

\* /chat/ after the await of synthesize_speech, on the event loop: the TTS
\* output is renamed to response_<id>.wav and the entry is appended.
chat_resume ==
    /\ \E id \in DOMAIN requests :
          /\ requests[id].pc = "resume"
          /\ requests' = Leave(id)
          /\ IF ~requests[id].tts_success THEN
                 /\ response' = ChatError("TTS synthesis failed")
                 /\ UNCHANGED <<conversation_history, response_wav,
                                assistant_audio, completed>>
             ELSE IF ~response_wav.exists THEN
                 /\ response' = ChatError("TTS output file not found")
                 /\ UNCHANGED <<conversation_history, response_wav,
                                assistant_audio, completed>>
             ELSE IF ~response_wav.over_1000_bytes THEN
                 /\ response' = ChatError("TTS generated empty audio file")
                 /\ UNCHANGED <<conversation_history, response_wav,
                                assistant_audio, completed>>
             ELSE
                 /\ response_wav' = NoFile
                 /\ conversation_history' =
                        AppendConversation(conversation_history, ConversationEntry(id))
                 /\ assistant_audio' = (id :> response_wav.audio)
                 /\ completed' = Append(completed, id)
                 /\ response' = ChatSuccess(id)
    /\ UNCHANGED next_id
    /\ UNCHANGED <<faiss_ntotal, documents, documents_fts, app_texts, ingested,
                   call, locals>>

\* POST /clear
clear_conversation ==
    /\ conversation_history' = <<>>
    /\ completed' = <<>>
    /\ response' = [status |-> "ok", success |-> TRUE,
                    cleared_conversations |-> Len(conversation_history)]
    /\ UNCHANGED <<requests, next_id, response_wav, assistant_audio>>
    /\ UNCHANGED <<faiss_ntotal, documents, documents_fts, app_texts, ingested,
                   call, locals>>

InitChat ==
    /\ faiss_ntotal = 0
    /\ app_texts = <<>>
    /\ documents = <<>>
    /\ documents_fts = <<>>
    /\ ingested = <<>>
    /\ call = NoCall
    /\ locals = NoLocals
    /\ response = NoResponse
    /\ NoChat

NextChat ==
    \/ chat_endpoint
    \/ generate_response
    \/ synthesize_speech
    \/ synthesize_speech_check
    \/ chat_resume
    \/ clear_conversation

SpecChat == InitChat /\ [][NextChat]_vars

(***************************************************************************)
(* Properties of hybrid_search                                             *)
(***************************************************************************)

HybridReturned == call.op = "hybrid_search" /\ response.status = "ok"

ResultIds == IdsOf(response.results)

\* The 1/(60 + rank + 1) terms a result list gives a chunk, from position i on.
RECURSIVE ListContribution(_, _, _)
ListContribution(list, chunk_id, i) ==
    IF i > Len(list) THEN FZero
    ELSE IF list[i].chunk_id = chunk_id
         THEN FAdd(Recip(60 + (i - 1) + 1), ListContribution(list, chunk_id, i + 1))
         ELSE ListContribution(list, chunk_id, i + 1)

ExpectedRRF(chunk_id) ==
    FAdd(ListContribution(locals.vector_results, chunk_id, 1),
         ListContribution(locals.keyword_results, chunk_id, 1))

InputIds == Range(IdsOf(locals.vector_results)) \cup Range(IdsOf(locals.keyword_results))

\* A chunk's zero-based rank in a list; the list's length (beyond every rank
\* in it) stands for +infinity when the chunk is absent.
RankOrInf(list, chunk_id) ==
    IF \E i \in 1..Len(list) : list[i].chunk_id = chunk_id
    THEN (CHOOSE i \in 1..Len(list) : list[i].chunk_id = chunk_id) - 1
    ELSE Len(list)

\* (vector rank, lexical rank, chunk_id) of a before that of b, lexicographically.
TieBreakBefore(a, b) ==
    LET va == RankOrInf(locals.vector_results, a)
        vb == RankOrInf(locals.vector_results, b)
        ka == RankOrInf(locals.keyword_results, a)
        kb == RankOrInf(locals.keyword_results, b)
    IN \/ va < vb
       \/ va = vb /\ ka < kb
       \/ va = vb /\ ka = kb /\ a < b

\* C1: the list hybrid_search returns has at most k entries and their
\* hybrid_score values are non-increasing from first to last, whatever order
\* the document store returns its rows in.
C1_SortedByScoreTruncated ==
    HybridReturned =>
        /\ Len(response.results) <= call.k
        /\ \A i, j \in 1..Len(response.results) :
              i < j => ~FLess(response.results[i].hybrid_score,
                              response.results[j].hybrid_score)

\* C2: every chunk of either input list has a fused score, equal to the sum
\* over the vector list and the keyword list of 1/(60 + rank + 1) at the
\* chunk's zero-based positions, and each returned record's hybrid_score is
\* its own chunk's fused score.
C2_FusedScoreIsRankSum ==
    HybridReturned =>
        /\ Range(IdsOf(locals.fused_scores)) = InputIds
        /\ \A i \in 1..Len(locals.fused_scores) :
              FEq(locals.fused_scores[i].score,
                  ExpectedRRF(locals.fused_scores[i].chunk_id))
        /\ \A i \in 1..Len(response.results) :
              FEq(response.results[i].hybrid_score,
                  ExpectedRRF(response.results[i].chunk_id))

\* C2 witness: a returned record found by both searches next to one found by
\* only one of them.
C2_Witness ==
    /\ HybridReturned
    /\ \E i, j \in 1..Len(response.results) :
          LET a == response.results[i].chunk_id
              b == response.results[j].chunk_id
          IN /\ a \in Range(IdsOf(locals.vector_results))
             /\ a \in Range(IdsOf(locals.keyword_results))
             /\ b \in Range(IdsOf(locals.keyword_results))
             /\ b \notin Range(IdsOf(locals.vector_results))

\* C3: every chunk_id in the output of hybrid_search appeared in the vector
\* results or the keyword results of the same query, and none appears twice.
C3_NoFabricatedNoDuplicateIds ==
    HybridReturned =>
        /\ Range(ResultIds) \subseteq InputIds
        /\ \A i, j \in 1..Len(ResultIds) : i # j => ResultIds[i] # ResultIds[j]

\* C3 witness: two records returned while the store holds a chunk that
\* neither search found.
C3_Witness ==
    /\ HybridReturned
    /\ Len(response.results) >= 2
    /\ (DOMAIN documents) \ InputIds # {}

\* C4: returned items with equal fused scores are ordered by vector rank
\* (absent = +infinity), then lexical rank (absent = +infinity), then
\* ascending chunk_id.
C4_TieBreakOrder ==
    HybridReturned =>
        \A i, j \in 1..Len(response.results) :
            (i < j /\ FEq(response.results[i].hybrid_score,
                          response.results[j].hybrid_score))
                => TieBreakBefore(ResultIds[i], ResultIds[j])

\* C5: vector list [A, B, C], lexical list [C, A], k = 2 give the fused
\* scores A = 1/61 + 1/62, C = 1/63 + 1/61, B = 1/62 and the output [A, C].
C5_ConcreteScenario ==
    \A a, b, c \in ChunkIds :
        (/\ HybridReturned
         /\ call.k = 2
         /\ IdsOf(locals.vector_results) = <<a, b, c>>
         /\ IdsOf(locals.keyword_results) = <<c, a>>
         /\ {a, c} \subseteq DOMAIN documents)
        => /\ FEq(DictGet(locals.fused_scores, a, FZero), FAdd(Recip(61), Recip(62)))
           /\ FEq(DictGet(locals.fused_scores, c, FZero), FAdd(Recip(63), Recip(61)))
           /\ FEq(DictGet(locals.fused_scores, b, FZero), Recip(62))
           /\ ResultIds = <<a, c>>

\* C6: when the keyword search fails and the vector search succeeds, the
\* hybrid query succeeds with the vector results and method "vector_only".
C6_LexicalFailureDegrades ==
    (call.op = "hybrid_search" /\ call.faiss.ok /\ ~call.fts.ok) =>
        /\ response.status = "ok"
        /\ response.method = "vector_only"
        /\ Range(ResultIds) \subseteq Range(IdsOf(locals.vector_results))

\* C7: when both searches fail, the query ends with one RetrievalUnavailable
\* error, not the raw error of the search that failed first.
C7_BothFailRetrievalUnavailable ==
    (call.op = "hybrid_search" /\ ~call.faiss.ok /\ ~call.fts.ok) =>
        /\ response.status = "error"
        /\ response.error = "RetrievalUnavailable"

(***************************************************************************)
(* Properties of the document lookup and of the single searches            *)
(***************************************************************************)

\* A handler that calls _get_document_details has produced its response.
LookupReturned ==
    /\ call.op \in {"hybrid_search", "vector_search", "keyword_search"}
    /\ response.status = "ok"

\* The chunk ids the handler passed to _get_document_details.
LookupIds ==
    IF call.op = "hybrid_search" THEN IdsOf(locals.top_chunk_ids) ELSE locals.chunk_ids

\* C11: when every id passed to _get_document_details has a row in
\* documents, the records come back one per input id, in the order of the
\* input ids.
C11_LookupKeepsInputOrder ==
    (LookupReturned /\ Range(LookupIds) \subseteq DOMAIN documents)
        => ResultIds = LookupIds

\* vector_search has returned its list in this call.
VectorSearchReturned ==
    /\ call.op \in {"hybrid_search", "vector_search"}
    /\ call.faiss.ok

\* What vector_search returned, and the k it was called with.
VectorResults ==
    IF call.op = "vector_search" THEN locals.found ELSE locals.vector_results

VectorK == IF call.op = "vector_search" THEN call.k ELSE call.k * 2

\* The score the search computed for a chunk: its fused score in a hybrid
\* search, its vector_score in a vector search.
OwnScore(chunk_id) ==
    IF call.op = "hybrid_search"
    THEN DictGet(locals.fused_scores, chunk_id, FZero)
    ELSE locals.found[CHOOSE i \in 1..Len(locals.found) :
                          locals.found[i].chunk_id = chunk_id].vector_score

\* C12: when the index returns a chunk_id that has no row in documents, the
\* search answers without an error, leaves that entry out, and every entry
\* it returns carries its own chunk's content and score.
C12_MissingRecordOmitted ==
    (/\ VectorSearchReturned
     /\ call.op = "hybrid_search" => call.fts.ok
     /\ \E i \in 1..Len(call.faiss.indices) :
           /\ call.faiss.indices[i] # 0 - 1
           /\ call.faiss.indices[i] \notin DOMAIN documents)
    => /\ response.status = "ok"
       /\ Range(ResultIds) = Range(LookupIds) \cap DOMAIN documents
       /\ \A i \in 1..Len(response.results) :
             /\ response.results[i].content = documents[response.results[i].chunk_id]
             /\ FEq(response.results[i].hybrid_score,
                    OwnScore(response.results[i].chunk_id))

\* C16: keyword_search with the empty query returns the empty list without
\* raising, and a hybrid search with the empty query completes.
C16_EmptyQueryReturnsEmpty ==
    /\ (call.op = "keyword_search" /\ call.query = "") =>
           /\ response.status = "ok"
           /\ response.results = <<>>
    /\ (call.op = "hybrid_search" /\ call.query = "" /\ call.faiss.ok) =>
           response.status = "ok"

\* C17: on a non-empty index, vector_search(query, k) with k >= 1 returns at
\* most k results, by non-decreasing distance and non-increasing
\* vector_score = 1/(1 + distance), with rank 0, 1, 2, ... equal to each
\* result's position in the list.
C17_VectorSearchSortedRanked ==
    (VectorSearchReturned /\ faiss_ntotal >= 1) =>
        /\ Len(VectorResults) <= VectorK
        /\ Len(VectorResults) >= 1
        /\ \A i \in 1..Len(VectorResults) :
              /\ VectorResults[i].rank = i - 1
              /\ VectorResults[i].chunk_id = call.faiss.indices[i]
              /\ FEq(VectorResults[i].vector_score,
                     [num |-> 1, den |-> 1 + call.faiss.distances[i]])
        /\ \A i, j \in 1..Len(VectorResults) :
              i < j => /\ call.faiss.distances[i] <= call.faiss.distances[j]
                       /\ ~FLess(VectorResults[i].vector_score,
                                 VectorResults[j].vector_score)

\* C17 witness: a vector search that returns fewer results than one of its
\* callers asked for, two of them at different distances.
C17_Witness ==
    /\ VectorSearchReturned
    /\ Len(VectorResults) < VectorK
    /\ \E i, j \in 1..Len(VectorResults) :
          FLess(VectorResults[j].vector_score, VectorResults[i].vector_score)

\* C20: fusing a list A of distinct ids with itself (vector results = keyword
\* results = A) and k >= len(A) returns A in A's order.
C20_SelfFusionKeepsOrder ==
    (/\ HybridReturned
     /\ IdsOf(locals.vector_results) = IdsOf(locals.keyword_results)
     /\ call.k >= Len(locals.vector_results))
    => ResultIds = IdsOf(locals.vector_results)

\* The same hybrid request run again with other raw scores: the same ids in
\* the same order from both searches, the same k and the same rows from the
\* database, distances and bm25 values of score profile p.
HybridRunWithScores(p) ==
    hybrid_search(call.k,
                  vector_search(FaissDistances(p, Len(locals.vector_results),
                                               Len(call.faiss.indices)),
                                call.faiss.indices),
                  keyword_search(call.fts.rows,
                                 Bm25Scores(p, Len(call.fts.rows))),
                  locals.rows)

\* C23: hybrid fusion never uses raw scores.  Two runs of hybrid_search that
\* get the same vector ids in the same order and the same keyword ids in the
\* same order, with different distances and bm25 values, produce the same
\* fused scores, the same top ids and the same output list.
C23_FusionIgnoresRawScores ==
    HybridReturned =>
        \A p \in ScoreProfiles :
            HybridRunWithScores(p)
                = [fused_scores |-> locals.fused_scores,
                   top_chunk_ids |-> locals.top_chunk_ids,
                   results |-> response.results]

\* C23 witness: a hybrid search over two vector results at the same distance
\* and two keyword results with the same bm25 value, a chunk in both lists,
\* so the run with all scores different is another run.
C23_Witness ==
    /\ HybridReturned
    /\ Len(locals.vector_results) >= 2
    /\ Len(locals.keyword_results) >= 2
    /\ call.faiss.distances[1] = call.faiss.distances[2]
    /\ call.fts.scores[1] = call.fts.scores[2]
    /\ FaissDistances(1, Len(locals.vector_results), Len(call.faiss.indices))
           # call.faiss.distances
    /\ Range(IdsOf(locals.vector_results)) \cap Range(IdsOf(locals.keyword_results))
           # {}
    /\ Len(response.results) >= 2

\* The score the search method computed for the j-th record it found.
FoundScore(j) ==
    IF call.op = "vector_search" THEN locals.found[j].vector_score
    ELSE locals.found[j].keyword_score

\* C26: in /vector_search and /keyword_search the score attached to each
\* returned record is the score the search method computed for the same
\* chunk_id.
C26_ZippedScoreIsOwnScore ==
    (call.op \in {"vector_search", "keyword_search"} /\ locals.reached = "return") =>
        \A i \in 1..Len(response.results) :
            \A j \in 1..Len(locals.found) :
                locals.found[j].chunk_id = response.results[i].chunk_id
                => FEq(response.results[i].hybrid_score, FoundScore(j))

\* What keyword_search returned in this call.
KeywordSearchReturned ==
    /\ call.op \in {"hybrid_search", "keyword_search"}
    /\ locals.reached = "return"

KeywordResults ==
    IF call.op = "keyword_search" THEN locals.found ELSE locals.keyword_results

\* C28: keyword_score agrees with the order of keyword_search's list: no
\* result has a strictly higher keyword_score than a result listed before it.
C28_KeywordScoreFollowsOrder ==
    KeywordSearchReturned =>
        \A i, j \in 1..Len(KeywordResults) :
            i < j => ~FLess(KeywordResults[i].keyword_score,
                            KeywordResults[j].keyword_score)

\* C21: for every query whose searches return at least one result, both
\* compare_searches and /compare_methods complete and return three lists of
\* previews (vector-only, keyword-only, hybrid) of at most k entries each.
C21_CompareReturnsThreeLists ==
    (/\ call.op \in {"compare_searches", "compare_methods"}
     /\ call.faiss.ok
     /\ call.fts.ok
     /\ Len(locals.vector_results) >= 1
     /\ Len(locals.keyword_results) >= 1)
    => /\ response.status = "ok"
       /\ Len(response.vector_only) <= call.k
       /\ Len(response.keyword_only) <= call.k
       /\ Len(response.hybrid) <= call.k

\* The part of C21 about the HTTP endpoint alone.
CompareMethodsCompletes ==
    (call.op = "compare_methods" /\ call.faiss.ok /\ call.fts.ok)
    => /\ response.status = "ok"
       /\ Len(response.vector_only) <= call.k
       /\ Len(response.keyword_only) <= call.k
       /\ Len(response.hybrid) <= call.k

(***************************************************************************)
(* Properties of reranking                                                 *)
(***************************************************************************)

RerankReturned == call.op = "rerank" /\ response.status = "ok"

SearchReranked ==
    /\ call.op = "search"
    /\ response.status = "ok"
    /\ response.metrics.method = "faiss_reranked"

RerankSearchScored ==
    /\ call.op = "rerank_search"
    /\ locals.reached = "return"

\* C8: when the cross-encoder call fails in a search with reranking, the
\* request succeeds and returns the first k candidates in pre-rerank order.
C8_RerankFailureFallsBack ==
    /\ (call.op = "search" /\ locals.reached = "predict") =>
           /\ response.status = "ok"
           /\ TextsOf(response.results) = TextsOf(Take(locals.candidates, call.k))
    /\ (call.op = "enhanced_search" /\ locals.reached = "predict") =>
           /\ response.status = "ok"
           /\ TextsOf(response.results)
                  = TextsOf(Take(locals.candidate_info, call.final_k))

\* C9: for final_k >= 0, Reranker.rerank returns exactly
\* min(final_k, len(candidates)) results whenever the model answers, each the
\* input candidate at its own original_rank, no input position twice; an
\* empty candidate list gives an empty result without an error.  The same
\* holds of the second stage of EnhancedRetrievalSystem.search.
C9_RerankLengthAndMembership ==
    /\ (call.op = "rerank" /\ (call.cross.ok \/ call.candidates = <<>>)) =>
           response.status = "ok"
    /\ (call.op = "rerank" /\ call.candidates = <<>>) => response.results = <<>>
    /\ RerankReturned =>
           /\ Len(response.results) = Min(call.top_k, Len(call.candidates))
           /\ \A i \in 1..Len(response.results) :
                 /\ response.results[i].original_rank \in 1..Len(call.candidates)
                 /\ response.results[i].text
                        = call.candidates[response.results[i].original_rank]
           /\ \A i, j \in 1..Len(response.results) :
                 i # j => response.results[i].original_rank
                              # response.results[j].original_rank
    /\ (call.op = "enhanced_search" /\ response.status = "ok") =>
           /\ Len(response.results)
                  = Min(call.final_k, Len(locals.candidates_to_rerank))
           /\ \A i \in 1..Len(response.results) :
                 /\ response.results[i].final_rank
                        \in 1..Len(locals.candidates_to_rerank)
                 /\ response.results[i].text
                        = locals.candidates_to_rerank[response.results[i].final_rank]
           /\ \A i, j \in 1..Len(response.results) :
                 i # j => response.results[i].final_rank
                              # response.results[j].final_rank

\* C9 witness: a rerank that truncates a candidate list holding the same
\* text twice.
C9_Witness ==
    /\ RerankReturned
    /\ call.top_k >= 1
    /\ call.top_k < Len(call.candidates)
    /\ Cardinality(Range(call.candidates)) < Len(call.candidates)
    /\ Cardinality(Range(call.candidates)) >= 2

\* C10: rerank results carry the model's scores, are sorted by them in
\* descending order, and no scored candidate left out of the output scores
\* strictly higher than one in it; in Reranker.rerank, in the reranking
\* branch of /search and in /rerank.
C10_SortedTopByRelevance ==
    /\ RerankReturned =>
           /\ \A i \in 1..Len(response.results) :
                 response.results[i].rerank_score
                     = call.cross.score[response.results[i].text]
           /\ \A i, j \in 1..Len(response.results) :
                 i < j => response.results[i].rerank_score
                              >= response.results[j].rerank_score
           /\ \A p \in 1..Len(call.candidates), i \in 1..Len(response.results) :
                 (\A j \in 1..Len(response.results) :
                      response.results[j].original_rank # p)
                 => call.cross.score[call.candidates[p]]
                        <= response.results[i].rerank_score
    /\ SearchReranked =>
           /\ \A i \in 1..Len(response.results) :
                 response.results[i].cross_score
                     = call.cross.score[response.results[i].text]
           /\ \A i, j \in 1..Len(response.results) :
                 i < j => response.results[i].cross_score
                              >= response.results[j].cross_score
           /\ \A i \in 1..Len(response.results) :
                 Cardinality({p \in 1..Len(locals.candidates_to_rerank) :
                     call.cross.score[locals.candidates_to_rerank[p].text]
                         > response.results[i].cross_score})
                 = Cardinality({j \in 1..Len(response.results) :
                     response.results[j].cross_score
                         > response.results[i].cross_score})
    /\ RerankSearchScored =>
           /\ Len(response.reranked_results) = Len(call.candidates)
           /\ \A i \in 1..Len(response.reranked_results) :
                 /\ response.reranked_results[i].score
                        = call.cross.score[response.reranked_results[i].text]
                 /\ response.reranked_results[i].rank = i
           /\ \A i, j \in 1..Len(response.reranked_results) :
                 i < j => response.reranked_results[i].score
                              >= response.reranked_results[j].score

\* C10 witness: a rerank that moves a later candidate to the front and
\* leaves a lower-scored candidate out.
C10_Witness ==
    /\ RerankReturned
    /\ Len(response.results) >= 2
    /\ Len(response.results) < Len(call.candidates)
    /\ response.results[1].original_rank > 1
    /\ response.results[1].rerank_score > response.results[2].rerank_score

\* C15: a search called with k <= 0 fails with InvalidArgument and returns
\* no result list.
C15_NonPositiveKRejected ==
    (call.op = "search" /\ call.k <= 0) =>
        /\ response.status = "error"
        /\ response.error = "InvalidArgument"

\* The reranking stage of /search ran: the cross-encoder scored candidates.
SearchRanReranker ==
    /\ call.op = "search"
    /\ "cross_scores" \in DOMAIN locals

\* C18: the method of a /search response tells the scoring regime.  It is
\* "faiss_reranked", on the response and on every result, exactly when the
\* cross-encoder scored the candidates and the results are in descending
\* order of those scores; otherwise it is "faiss_only" and the results are
\* the first k candidates in index order, also when reranking was requested
\* and skipped.
C18_MethodTellsRegime ==
    (call.op = "search" /\ response.status = "ok") =>
        /\ response.metrics.method \in {"faiss_only", "faiss_reranked"}
        /\ (response.metrics.method = "faiss_reranked") <=> SearchRanReranker
        /\ \A i \in 1..Len(response.results) :
              response.results[i].method = response.metrics.method
        /\ SearchRanReranker =>
              /\ \A i \in 1..Len(response.results) :
                    response.results[i].cross_score
                        = call.cross.score[response.results[i].text]
              /\ \A i, j \in 1..Len(response.results) :
                    i < j => response.results[i].cross_score
                                 >= response.results[j].cross_score
        /\ ~SearchRanReranker =>
              /\ Len(response.results) = Min(call.k, Len(locals.candidates))
              /\ \A i \in 1..Len(response.results) :
                    /\ response.results[i].text = locals.candidates[i].text
                    /\ response.results[i].id = locals.candidates[i].index

\* C18 witness: reranking was requested and skipped, because the index gave
\* no more candidates than the k asked for.
C18_Witness ==
    /\ call.op = "search"
    /\ response.status = "ok"
    /\ call.use_reranking
    /\ response.metrics.method = "faiss_only"
    /\ Len(response.results) >= 2

\* C19: the score of every result of a reranked /search response is that
\* candidate's cross-encoder relevance score.
C19_RerankedScoreIsRelevance ==
    SearchReranked =>
        \A i \in 1..Len(response.results) :
            response.results[i].score = call.cross.score[response.results[i].text]

\* C24: the original_rank of every result of Reranker.rerank is the 1-based
\* input position of that candidate: the result carries the text and the
\* score of that position, equal scores keep their input order, and over an
\* untruncated output the original_rank values are exactly
\* 1..len(candidates).
C24_OriginalRankIsInputPosition ==
    RerankReturned =>
        /\ \A i \in 1..Len(response.results) :
              /\ response.results[i].original_rank \in 1..Len(call.candidates)
              /\ response.results[i].text
                     = call.candidates[response.results[i].original_rank]
              /\ response.results[i].rerank_score
                     = locals.scores[response.results[i].original_rank]
        /\ \A i, j \in 1..Len(response.results) :
              (i < j /\ response.results[i].rerank_score
                            = response.results[j].rerank_score)
              => response.results[i].original_rank
                     < response.results[j].original_rank
        /\ call.top_k >= Len(call.candidates) =>
              {response.results[i].original_rank : i \in 1..Len(response.results)}
                  = 1..Len(call.candidates)

\* C24 witness: an untruncated rerank that puts the second candidate first.
C24_Witness ==
    /\ RerankReturned
    /\ Len(call.candidates) >= 2
    /\ call.top_k >= Len(call.candidates)
    /\ response.results[1].original_rank = 2
    /\ response.results[2].original_rank = 1

\* C25: in EnhancedRetrievalSystem.search the faiss_rank of a result is the
\* 1-based position of its candidate in first-stage order: the nearest
\* candidate has faiss_rank 1.
C25_FaissRankIsFaissPosition ==
    (call.op = "enhanced_search" /\ response.status = "ok") =>
        /\ \A p \in 1..Len(locals.candidate_info) :
              locals.candidate_info[p].faiss_rank = p
        /\ \A i \in 1..Len(response.results) :
              \A p \in 1..Len(locals.candidate_info) :
                  locals.candidate_info[p].faiss_distance
                      = response.results[i].faiss_distance
                  => response.results[i].faiss_rank = p

\* C22: a reranked search re-scores at least k candidates and returns
\* min(k, number of first-stage candidates) results.
C22_RerankedReturnsK ==
    /\ (SearchRanReranker /\ response.status = "ok") =>
           /\ Len(locals.candidates_to_rerank) >= call.k
           /\ Len(response.results) = Min(call.k, Len(locals.candidates))
    /\ (call.op = "enhanced_search" /\ response.status = "ok") =>
           Len(response.results) = Min(call.final_k, Len(locals.candidate_info))

\* C27: a -1 slot of the FAISS answer never becomes a candidate: the
\* reranking searches hold at most one candidate per indexed vector, every
\* returned id is the id of an indexed vector, and no id is returned twice.
C27_PaddingNeverCandidate ==
    /\ (call.op = "search" /\ "candidates" \in DOMAIN locals) =>
           /\ Len(locals.candidates) <= faiss_ntotal
           /\ \A i \in 1..Len(locals.candidates) :
                 locals.candidates[i].index \in 0..(faiss_ntotal - 1)
    /\ (call.op = "search" /\ response.status = "ok") =>
           /\ \A i \in 1..Len(response.results) :
                 response.results[i].id \in 0..(faiss_ntotal - 1)
           /\ \A i, j \in 1..Len(response.results) :
                 i # j => response.results[i].id # response.results[j].id
    /\ (call.op = "enhanced_search" /\ "candidate_info" \in DOMAIN locals) =>
           Len(locals.candidate_info) <= faiss_ntotal
    /\ (call.op = "enhanced_search" /\ response.status = "ok") =>
           Len(response.results) <= faiss_ntotal

(***************************************************************************)
(* Properties of the voice assistant                                       *)
(***************************************************************************)

\* The last n items of a sequence (all of it when it is shorter).
LastN(xs, n) == IF Len(xs) <= n THEN xs ELSE SubSeq(xs, Len(xs) - n + 1, Len(xs))

\* C29: after any interleaving of /chat/ and /clear requests the history
\* holds at most MAX_CONVERSATIONS entries: the entries of the most recent
\* chats that completed since the last clear, in completion order.  A chat
\* that fails leaves it unchanged.
C29_HistoryIsRecentCompleted ==
    /\ Len(conversation_history) <= MAX_CONVERSATIONS
    /\ conversation_history
           = [i \in 1..Len(LastN(completed, MAX_CONVERSATIONS)) |->
                 ConversationEntry(LastN(completed, MAX_CONVERSATIONS)[i])]

\* C29 witness: a sixth chat has completed since the last clear, the oldest
\* entry is gone, and two chats completed in the reverse of their arrival
\* order.
C29_Witness ==
    /\ Len(completed) > MAX_CONVERSATIONS
    /\ Len(conversation_history) = MAX_CONVERSATIONS
    /\ conversation_history[1].id = completed[2]
    /\ \E i, j \in 1..Len(conversation_history) :
          i < j /\ conversation_history[i].id > conversation_history[j].id

\* C30: each successful request's assistant audio file holds the speech
\* synthesized from that request's own assistant_text, and no request fails
\* with a missing TTS output file.
C30_OwnSpeechNoMissingFile ==
    /\ \A id \in DOMAIN assistant_audio :
          assistant_audio[id] = Speech(BotText(id))
    /\ "error" \in DOMAIN response => response.error # "TTS output file not found"

(***************************************************************************)
(* Properties of ingestion                                                 *)
(***************************************************************************)

\* C13: add_documents upserts by chunk_id.  After any sequence of calls the
\* documents table holds exactly one row per chunk_id ever committed, with
\* the content most recently committed for it, and documents_fts holds
\* exactly one row for that id with the same content.
C13_UpsertKeepsLatest ==
    /\ DOMAIN documents = DOMAIN ingested
    /\ DOMAIN documents_fts = DOMAIN ingested
    /\ \A c \in DOMAIN ingested :
          /\ documents[c] = ingested[c].last
          /\ documents_fts[c] = ingested[c].last

\* C13 witness: a committed batch after which some chunk has been stored
\* with two different contents while another chunk still has its first.
C13_Witness ==
    /\ call.op = "add_documents"
    /\ response.status = "ok"
    /\ \E c, d \in DOMAIN ingested :
          /\ Cardinality(ingested[c].all) = 2
          /\ Cardinality(ingested[d].all) = 1

\* C14: in every reachable state, after a failed add_documents too, every
\* id of the vector index and every rowid of documents_fts is the chunk_id
\* of a row of documents.
C14_IdConsistent ==
    /\ \A id \in 0..(faiss_ntotal - 1) : id \in DOMAIN documents
    /\ \A rowid \in DOMAIN documents_fts : rowid \in DOMAIN documents

====
